---- MODULE Spec2Model ----
(***************************************************************************)
(* Registration, authentication and bearer-token gate of the FastAPI user  *)
(* module: app/models/user.py (User, register, authenticate, token codec)  *)
(* and app/auth/dependencies.py (get_current_user).                        *)
(*                                                                         *)
(* Text values (emails, usernames, passwords) are sequences of one-letter  *)
(* strings, so that length checks, character classes and the e-mail        *)
(* normalisation are computed and not postulated.  Times are counted in    *)
(* ticks of 1/TicksPerSec second; a JWT "exp" claim is in whole seconds.   *)
(***************************************************************************)
EXTENDS Integers, Sequences, FiniteSets, TLC

VARIABLES
    users,       \* the rows of the users table
    reg,         \* per concurrent caller: where its register call stands
    registered,  \* history: the inputs the rows of the table were registered with
    issued,      \* history: the tokens create_access_token was asked for
    now,         \* the clock, in ticks
    nextId,      \* the next uuid4 value
    result,      \* the outcome of the last call
    hashes       \* history: the hash_password calls made on their own, in order

vars == <<users, reg, registered, issued, now, nextId, result, hashes>>

(***************************************************************************)
(* Bounds of the model.                                                    *)
(***************************************************************************)
TicksPerSec == 2
MaxOffset == 3
MaxTokens == 1
MaxUsers == 2
NumSalts == 3

(***************************************************************************)
(* Program constants.                                                      *)
(***************************************************************************)
SECRET_KEY == "your-secret-key"
ALGORITHM == "HS256"
ACCESS_TOKEN_EXPIRE_MINUTES == 30
MinPasswordLen == 6
MaxPasswordLen == 128
MinUsernameLen == 3
MaxUsernameLen == 50
MaxNameLen == 50

\* Python's None for an absent id / a NULL timestamp.
NoId == 0
NULL == -1

\* The callers that may be inside register at the same time.
Callers == {1, 2}

DefaultTtlTicks == ACCESS_TOKEN_EXPIRE_MINUTES * 60 * TicksPerSec

\* The instants at which the clock is sampled: around the epoch and around
\* the expiry of a default-TTL token issued there.
TimePoints == (0 .. MaxOffset) \cup {DefaultTtlTicks + o : o \in 0 .. MaxOffset}

\* The coarser sample the store's operations run at.
StoreTimePoints == {0, DefaultTtlTicks + TicksPerSec + 1}

(***************************************************************************)
(* Text.                                                                   *)
(***************************************************************************)
UpperChars == {"A", "I", "O", "X"}
LowerChars == {"a", "b", "c", "i", "j", "k", "o", "x"}
DigitChars == {"1", "2", "3"}

IsUpper(c) == c \in UpperChars
IsLower(c) == c \in LowerChars
IsDigit(c) == c \in DigitChars

ToLower(c) ==
    CASE c = "A" -> "a"
      [] c = "I" -> "i"
      [] c = "O" -> "o"
      [] c = "X" -> "x"
      [] OTHER -> c

AtPositions(s) == {i \in 1 .. Len(s) : s[i] = "@"}

\* email_validator: one "@", a non-empty local part, a dotted domain whose
\* labels are non-empty.
IsEmail(s) ==
    /\ Cardinality(AtPositions(s)) = 1
    /\ LET at == CHOOSE i \in AtPositions(s) : TRUE
           dots == {i \in at + 1 .. Len(s) : s[i] = "."}
       IN  /\ at > 1
           /\ dots # {}
           /\ at + 1 \notin dots
           /\ Len(s) \notin dots
           /\ \A i \in dots : i + 1 \notin dots

\* EmailStr returns the normalised address: the domain in lower case, the
\* local part as given.
NormalizeEmail(s) ==
    LET at == CHOOSE i \in AtPositions(s) : TRUE
    IN  [i \in 1 .. Len(s) |-> IF i > at THEN ToLower(s[i]) ELSE s[i]]

JohnEmail == <<"j", "@", "x", ".", "i", "o">>
JohnEmailUpper == <<"j", "@", "X", ".", "I", "O">>
KimEmail == <<"k", "@", "x", ".", "i", "o">>
JohnName == <<"j", "o", "x">>
GoodPassword == <<"A", "b", "c", "1", "2", "3">>
ShortPassword == <<"A", "b", "1">>
NoUpperPassword == <<"a", "b", "c", "1", "2", "3">>

\* The addresses register is given; JohnEmail is what JohnEmailUpper is stored as.
Emails == {JohnEmailUpper, KimEmail}
\* A username may be any 3..50 character text, an e-mail address included.
Usernames == {JohnName, KimEmail}
Passwords == {GoodPassword, ShortPassword, NoUpperPassword}
FirstNames == {<<"J">>}
LastNames == {<<"D">>}

UserData ==
    [first_name : FirstNames, last_name : LastNames, email : Emails,
     username : Usernames, password : Passwords]

(***************************************************************************)
(* app/schemas/base.py: UserCreate = UserBase + PasswordMixin.             *)
(***************************************************************************)
\* PasswordMixin.validate_password, a mode="before" model validator: the
\* first failing rule raises and ends the validation.
validate_password(values) ==
    LET password == values.password
        chars == {password[i] : i \in 1 .. Len(password)}
    IN  IF Len(password) < MinPasswordLen
          THEN {"Password must be at least 6 characters long"}
        ELSE IF ~ \E c \in chars : IsUpper(c)
          THEN {"Password must contain at least one uppercase letter"}
        ELSE IF ~ \E c \in chars : IsLower(c)
          THEN {"Password must contain at least one lowercase letter"}
        ELSE IF ~ \E c \in chars : IsDigit(c)
          THEN {"Password must contain at least one digit"}
        ELSE {}

\* The field constraints of UserBase and PasswordMixin; pydantic collects
\* every failing field.
FieldErrors(values) ==
    {e \in {"first_name", "last_name", "email", "username", "password"} :
        \/ e = "first_name" /\ Len(values.first_name) > MaxNameLen
        \/ e = "last_name" /\ Len(values.last_name) > MaxNameLen
        \/ e = "email" /\ ~ IsEmail(values.email)
        \/ e = "username" /\ \/ Len(values.username) < MinUsernameLen
                             \/ Len(values.username) > MaxUsernameLen
        \/ e = "password" /\ \/ Len(values.password) < MinPasswordLen
                             \/ Len(values.password) > MaxPasswordLen}

\* UserCreate.model_validate: the errors it raises ({} when it succeeds).
ModelValidateErrors(values) ==
    IF validate_password(values) # {}
      THEN validate_password(values)
      ELSE FieldErrors(values)

\* The validated model: the e-mail is the normalised one.
UserCreate(values) == [values EXCEPT !.email = NormalizeEmail(values.email)]

(***************************************************************************)
(* Password hashing (passlib bcrypt): a fresh salt per call; the digest    *)
(* determines and is determined by salt and password.                      *)
(***************************************************************************)
\* bcrypt reads the first 72 bytes of a password and no more.
BcryptMaxBytes == 72

Truncate(password) ==
    SubSeq(password, 1, IF Len(password) < BcryptMaxBytes THEN Len(password)
                                                          ELSE BcryptMaxBytes)

Digest(salt, password) == <<salt, Truncate(password)>>

\* Mutant: the password is stored as given.
StoresPlaintext(password, salt) ==
    [scheme |-> "plaintext", salt |-> salt, digest |-> password]

hash_password(password, salt) ==
    [scheme |-> "bcrypt", salt |-> salt, digest |-> Digest(salt, password)]

\* pwd_context.verify on a string bcrypt made: whether the digest is the one
\* of plain_password under the string's salt.
verify_password(hashed, plain_password) ==
    hashed.digest = Digest(hashed.salt, plain_password)

\* A stored string that is no bcrypt hash, such as a password kept as typed.
RawText(text) == [scheme |-> "", salt |-> 0, digest |-> text]

\* pwd_context.verify raises UnknownHashError ("hash could not be
\* identified") on a string of no scheme of the context.
VerifyRaises(hashed) == hashed.scheme # "bcrypt"

(***************************************************************************)
(* Token codec: User.create_access_token / User.verify_token over          *)
(* python-jose.  A token is the header's algorithm, the key its signature  *)
(* was made with, and its claims; text that is no JWT has another fmt.     *)
(***************************************************************************)
\* uuid4 values: those given to rows, and one no row ever gets.
IdSpace == 1 .. MaxUsers + 1

\* str(uuid) and uuid.UUID(text): UUID() raises ValueError on other text.
UuidStr(id) == ToString(id)
IsUuidStr(s) == \E i \in IdSpace : UuidStr(i) = s
UuidParse(s) == CHOOSE i \in IdSpace : UuidStr(i) = s

\* jwt.encode turns a datetime claim into whole seconds (timegm).
Timegm(t) == t \div TicksPerSec

\* An Optional[timedelta]: <<>> is None, <<d>> a duration of d ticks.
\* A zero timedelta is falsy, like None.
Truthy(expires_delta) == expires_delta # <<>> /\ expires_delta[1] # 0

create_access_token(data, expires_delta, t) ==
    LET expire == t + (IF Truthy(expires_delta) THEN expires_delta[1]
                                                ELSE DefaultTtlTicks)
        to_encode == IF "sub" \in DOMAIN data
                       THEN [sub |-> data.sub, exp |-> Timegm(expire)]
                       ELSE [exp |-> Timegm(expire)]
    IN  [fmt |-> "jwt", alg |-> ALGORITHM, key |-> SECRET_KEY, claims |-> to_encode]

\* jose.jwt.decode: the first failing check raises a JWTError; "exp" is
\* expired when it is less than the current whole second.
IsExpired(exp, t) == exp < Timegm(t)

JwtDecodeError(token, key, algorithms, t) ==
    IF token.fmt # "jwt" THEN "JWTError"
    ELSE IF token.alg \notin algorithms THEN "JWTError"
    ELSE IF token.key # key THEN "JWTError"
    ELSE IF "exp" \in DOMAIN token.claims /\ IsExpired(token.claims.exp, t)
      THEN "ExpiredSignatureError"
    ELSE "ok"

\* The exception classes verify_token's except clause catches.
CaughtByVerify == {"JWTError", "ExpiredSignatureError", "ValueError"}

\* What the body of verify_token's try block does: a value or an exception.
VerifyBody(token, t) ==
    LET err == JwtDecodeError(token, SECRET_KEY, {ALGORITHM}, t)
        payload == token.claims
        user_id == IF "sub" \in DOMAIN payload THEN payload.sub ELSE ""
    IN  IF err # "ok" THEN [outcome |-> "raise", exc |-> err, value |-> NoId]
        ELSE IF user_id = "" THEN [outcome |-> "return", exc |-> "", value |-> NoId]
        ELSE IF ~ IsUuidStr(user_id)
          THEN [outcome |-> "raise", exc |-> "ValueError", value |-> NoId]
        ELSE [outcome |-> "return", exc |-> "", value |-> UuidParse(user_id)]

verify_token(token, t) ==
    LET r == VerifyBody(token, t)
    IN  IF r.outcome = "raise" /\ r.exc \in CaughtByVerify
          THEN [outcome |-> "return", exc |-> "", value |-> NoId]
          ELSE r

\* Tokens a client can present without the server's help.
EmptyToken == [fmt |-> "empty"]
GarbageToken == [fmt |-> "garbage"]
ForgedToken ==
    [fmt |-> "jwt", alg |-> ALGORITHM, key |-> "attacker-key",
     claims |-> [sub |-> UuidStr(1), exp |-> Timegm(DefaultTtlTicks) + MaxOffset]]
AlgNoneToken ==
    [fmt |-> "jwt", alg |-> "none", key |-> "",
     claims |-> [sub |-> UuidStr(1), exp |-> Timegm(DefaultTtlTicks) + MaxOffset]]
ClientMadeTokens == {EmptyToken, GarbageToken, ForgedToken, AlgNoneToken}

(***************************************************************************)
(* The users table.  Each register call runs in a transaction of its own   *)
(* that its caller commits when register returns, so a row is in the table *)
(* from its INSERT on; the unique indexes on email and username decide at  *)
(* the INSERT.                                                             *)
(***************************************************************************)
\* Mutant: the profile says active whatever the row says.
UserResponseAlwaysActive(u) ==
    [id |-> u.id, username |-> u.username, email |-> u.email,
     first_name |-> u.first_name, last_name |-> u.last_name,
     is_active |-> TRUE, is_verified |-> u.is_verified,
     created_at |-> u.created_at, updated_at |-> u.updated_at]

\* UserResponse.model_validate(user): the profile fields, read by attribute.
UserResponse(u) ==
    [id |-> u.id, username |-> u.username, email |-> u.email,
     first_name |-> u.first_name, last_name |-> u.last_name,
     is_active |-> u.is_active, is_verified |-> u.is_verified,
     created_at |-> u.created_at, updated_at |-> u.updated_at]

Idle == [pc |-> "idle"]

NoResult == [op |-> "none"]

Init ==
    /\ users = {}
    /\ reg = [c \in Callers |-> Idle]
    /\ registered = {}
    /\ issued = {}
    /\ now = 0
    /\ nextId = 1
    /\ result = NoResult
    /\ hashes = <<>>

(***************************************************************************)
(* User.register, up to the construction of the new User (lines 74-101).   *)
(***************************************************************************)
\* The rows the existence query of register matches.
Existing(user_data) ==
    {u \in users : u.email = user_data.email \/ u.username = user_data.username}

\* The ValueError register raises before inserting, {} when it raises none.
RegisterError(user_data) ==
    IF Len(user_data.password) < MinPasswordLen
      THEN {"Password must be at least 6 characters long"}
    ELSE IF Existing(user_data) # {}
      THEN {"Username or email already exists"}
    ELSE ModelValidateErrors(user_data)

NewUser(user_data, salt) ==
    LET user_create == UserCreate(user_data)
    IN  [first_name |-> user_create.first_name,
         last_name |-> user_create.last_name,
         email |-> user_create.email,
         username |-> user_create.username,
         password |-> hash_password(user_create.password, salt),
         is_active |-> TRUE,
         is_verified |-> FALSE]

\* The salts bcrypt may draw.
Salts == 1 .. NumSalts

\* The salts of the hashes that exist: stored, about to be stored, or
\* returned by a hash_password call.
LiveSalts ==
    {u.password.salt : u \in users}
      \cup {reg[c].new_user.password.salt : c \in {x \in Callers : reg[x].pc = "flush"}}
      \cup {hashes[i].hash.salt : i \in 1 .. Len(hashes)}

\* bcrypt draws a salt no existing hash has (the least one, for
\* definiteness).
FreshSalts ==
    LET unused == Salts \ LiveSalts
    IN  IF unused = {} THEN {}
        ELSE {CHOOSE x \in unused : \A y \in unused : x <= y}

RegisterCheck(c, user_data) ==
    /\ reg[c].pc = "idle"
    /\ IF RegisterError(user_data) # {}
         THEN /\ result' = [op |-> "register", data |-> user_data,
                            outcome |-> "raise", exc |-> "ValueError",
                            msg |-> RegisterError(user_data)]
              /\ UNCHANGED reg
         ELSE /\ nextId <= MaxUsers
              /\ \E salt \in FreshSalts :
                   reg' = [reg EXCEPT ![c] =
                             [pc |-> "flush", data |-> user_data,
                              new_user |-> NewUser(user_data, salt)]]
              /\ UNCHANGED result
    /\ UNCHANGED <<users, registered, issued, now, nextId, hashes>>

(***************************************************************************)
(* User.register: db.add(new_user); db.flush(); return (lines 103-105).    *)
(***************************************************************************)
\* Mutant: the table has no unique index.
NoUniqueIndex(new_user) == FALSE

\* The INSERT breaks the unique index on email or the one on username.
UniqueViolation(new_user) ==
    \E u \in users : u.email = new_user.email \/ u.username = new_user.username

\* The row as inserted: id, created_at and updated_at take their column
\* defaults, last_login stays NULL.
InsertedRow(new_user, id, t) ==
    [id |-> id, first_name |-> new_user.first_name,
     last_name |-> new_user.last_name, email |-> new_user.email,
     username |-> new_user.username, password |-> new_user.password,
     is_active |-> new_user.is_active, is_verified |-> new_user.is_verified,
     last_login |-> NULL, created_at |-> t, updated_at |-> t]

RegisterFlush(c) ==
    /\ reg[c].pc = "flush"
    /\ reg' = [reg EXCEPT ![c] = Idle]
    /\ IF UniqueViolation(reg[c].new_user)
         THEN \* IntegrityError is no ValueError: neither except clause of
              \* register catches it.
              /\ result' = [op |-> "register", data |-> reg[c].data,
                            outcome |-> "raise", exc |-> "IntegrityError",
                            msg |-> {"duplicate key value violates unique constraint"}]
              /\ UNCHANGED <<users, registered, nextId>>
         ELSE LET row == InsertedRow(reg[c].new_user, nextId, now)
              IN  /\ users' = users \cup {row}
                  /\ registered' = registered \cup
                       {[email |-> reg[c].data.email,
                         username |-> reg[c].data.username,
                         password |-> reg[c].data.password, id |-> nextId]}
                  /\ result' = [op |-> "register", data |-> reg[c].data,
                                outcome |-> "return", value |-> row]
                  /\ nextId' = nextId + 1
    /\ UNCHANGED <<issued, now, hashes>>

Tick ==
    /\ \E t \in StoreTimePoints : t > now /\ now' = t
    /\ UNCHANGED <<users, reg, registered, issued, nextId, result, hashes>>

(***************************************************************************)
(* User.authenticate (lines 112-133).                                      *)
(***************************************************************************)
\* The rows the login query matches; first() returns any one of them.
LoginMatches(username) ==
    {u \in users : u.username = username \/ u.email = username}

\* user.last_login = utcnow(); db.commit(): the UPDATE also refreshes
\* updated_at.
\* Mutant: a login also marks the user verified.
LoggedInAndVerified(user, t) ==
    [user EXCEPT !.last_login = t, !.updated_at = t, !.is_verified = TRUE]

LoggedIn(user, t) == [user EXCEPT !.last_login = t, !.updated_at = t]

AuthResult(username, password, returned) ==
    [op |-> "authenticate", username |-> username, password |-> password,
     outcome |-> "return", returned |-> returned]

\* Mutant: the password is not checked.
RejectsNever(user, password) == FALSE

\* Mutant: an inactive user is turned away at login.
RejectsInactive(user, password) ==
    ~ verify_password(user.password, password) \/ ~ user.is_active

\* Whether authenticate, having found user, takes the "return None" branch.
Rejects(user, password) == ~ verify_password(user.password, password)

Authenticate(username, password) ==
    /\ \/ /\ LoginMatches(username) = {}
          /\ result' = AuthResult(username, password, "None")
          /\ UNCHANGED users
       \/ \E user \in LoginMatches(username) :
            IF VerifyRaises(user.password)
              THEN \* UnknownHashError leaves authenticate.
                   /\ result' = [op |-> "authenticate", username |-> username,
                                 password |-> password, outcome |-> "raise",
                                 exc |-> "UnknownHashError"]
                   /\ UNCHANGED users
            ELSE IF Rejects(user, password)
              THEN /\ result' = AuthResult(username, password, "None")
                   /\ UNCHANGED users
              ELSE /\ users' = (users \ {user}) \cup {LoggedIn(user, now)}
                   /\ result' =
                        AuthResult(username, password, "dict") @@
                        [value |->
                           [access_token |->
                              create_access_token([sub |-> UuidStr(user.id)], <<>>, now),
                            token_type |-> "bearer",
                            user |-> UserResponse(LoggedIn(user, now))]]
    /\ UNCHANGED <<reg, registered, issued, now, nextId, hashes>>

(***************************************************************************)
(* app/auth/dependencies.py: get_current_user (lines 10-29).               *)
(***************************************************************************)
credentials_exception ==
    [type |-> "HTTPException", status_code |-> 401,
     detail |-> "Could not validate credentials",
     headers |-> ("WWW-Authenticate" :> "Bearer")]

\* Mutant: the query forgets its filter.
AnyRow(user_id) == users

\* The rows the query by id matches.
ById(user_id) == {u \in users : u.id = user_id}

\* Mutant: the store is queried whatever verify_token returned.
AlwaysQueriesStore(user_id) == TRUE

\* Whether get_current_user goes on to query the store for this id.
QueriesStore(user_id) == user_id # NoId

\* Mutant: a missing user is reported as such.
GateRaiseNotFound(token, queries) ==
    [op |-> "get_current_user", token |-> token, at |-> now,
     outcome |-> "raise",
     exc |-> IF queries = 0 THEN credentials_exception
             ELSE [type |-> "HTTPException", status_code |-> 404,
                   detail |-> "User not found",
                   headers |-> ("WWW-Authenticate" :> "Bearer")],
     verify_calls |-> 1, queries |-> queries]

GateRaise(token, queries) ==
    [op |-> "get_current_user", token |-> token, at |-> now,
     outcome |-> "raise", exc |-> credentials_exception,
     verify_calls |-> 1, queries |-> queries]

GetCurrentUser(token) ==
    /\ LET user_id == verify_token(token, now).value
       IN  IF ~ QueriesStore(user_id)
             THEN result' = GateRaise(token, 0)
           ELSE IF ById(user_id) = {}
             THEN result' = GateRaise(token, 1)
           ELSE \E user \in ById(user_id) :
                  result' = [op |-> "get_current_user", token |-> token,
                             at |-> now, outcome |-> "return",
                             value |-> UserResponse(user),
                             verify_calls |-> 1, queries |-> 1]
    /\ UNCHANGED <<users, reg, registered, issued, now, nextId, hashes>>

\* The login identifiers and the bearer tokens the model's clients present.
LoginNames == Usernames \cup {JohnEmail}

TokenData == {[sub |-> UuidStr(i)] : i \in IdSpace}

BearerTokens ==
    {create_access_token(d, <<>>, t) : d \in TokenData,
                                      t \in {x \in StoreTimePoints : x <= now}}
      \cup {EmptyToken, ForgedToken}

Next ==
    \/ \E c \in Callers, user_data \in UserData : RegisterCheck(c, user_data)
    \/ \E c \in Callers : RegisterFlush(c)
    \/ \E username \in LoginNames, password \in Passwords :
         Authenticate(username, password)
    \/ \E token \in BearerTokens : GetCurrentUser(token)
    \/ Tick

Spec == Init /\ [][Next]_vars

(***************************************************************************)
(* The token codec on its own, on the fine clock: tokens are issued by     *)
(* create_access_token and any token is handed to verify_token.            *)
(***************************************************************************)
\* The claims dictionaries handed to create_access_token: no subject, an
\* empty one, one that is no UUID, and the text of a UUID.
NoSubData == <<>>
IssueData ==
    {NoSubData, [sub |-> ""], [sub |-> "abc"], [sub |-> UuidStr(1)], [sub |-> UuidStr(2)]}

\* The expires_delta arguments: none, zero, one second.
IssueDeltas == {<<>>, <<0>>, <<TicksPerSec>>}

IssueToken(data, expires_delta) ==
    /\ Cardinality(issued) < MaxTokens
    /\ issued' = issued \cup
         {[token |-> create_access_token(data, expires_delta, now),
           data |-> data, expires_delta |-> expires_delta, at |-> now]}
    /\ UNCHANGED <<users, reg, registered, now, nextId, result, hashes>>

VerifyToken(token) ==
    /\ result' = [op |-> "verify_token", token |-> token, at |-> now,
                  ret |-> verify_token(token, now)]
    /\ UNCHANGED <<users, reg, registered, issued, now, nextId, hashes>>

TokenTick ==
    /\ \E t \in TimePoints : t > now /\ now' = t
    /\ UNCHANGED <<users, reg, registered, issued, nextId, result, hashes>>

NextToken ==
    \/ \E data \in IssueData, expires_delta \in IssueDeltas :
         IssueToken(data, expires_delta)
    \/ \E token \in {i.token : i \in issued} \cup ClientMadeTokens : VerifyToken(token)
    \/ TokenTick

SpecToken == Init /\ [][NextToken]_vars

(***************************************************************************)
(* app/auth/dependencies.py: get_current_active_user (lines 31-40), and    *)
(* the two gates in a row: the profile get_current_user returned is the    *)
(* argument Depends(get_current_user) hands to get_current_active_user.    *)
(***************************************************************************)
inactive_exception ==
    [type |-> "HTTPException", status_code |-> 400, detail |-> "Inactive user"]

\* Mutant: the flag is not looked at.
NeverInactive(current_user) == FALSE

\* The test of line 35.
IsInactive(current_user) == ~ current_user.is_active

GetCurrentActiveUser ==
    /\ result.op = "get_current_user"
    /\ result.outcome = "return"
    /\ LET current_user == result.value
           call == [op |-> "get_current_active_user", token |-> result.token,
                    identified_at |-> result.at, current_user |-> current_user]
       IN  result' =
             IF IsInactive(current_user)
               THEN call @@ [outcome |-> "raise", exc |-> inactive_exception]
               ELSE call @@ [outcome |-> "return", value |-> current_user]
    /\ UNCHANGED <<users, reg, registered, issued, now, nextId, hashes>>

\* Deactivation of an account.  No code of the repository does it; it is the
\* "deactivate user" of the specification's scenario E: is_active becomes
\* false, and the UPDATE refreshes updated_at.
Deactivate(user) ==
    /\ user \in users
    /\ user.is_active
    /\ users' = (users \ {user}) \cup
                  {[user EXCEPT !.is_active = FALSE, !.updated_at = now]}
    /\ UNCHANGED <<reg, registered, issued, now, nextId, result, hashes>>

\* The instants of the gate's clock: a token issued at one of them is still
\* valid at the other.
GateTimePoints == {0, TicksPerSec}

GateTick ==
    /\ \E t \in GateTimePoints : t > now /\ now' = t
    /\ UNCHANGED <<users, reg, registered, issued, nextId, result, hashes>>

\* Sequential registrations with an acceptable password.
GateUserData == {d \in UserData : d.password = GoodPassword}

\* What a login at an instant up to now returns for an id, and a token that
\* is no JWT.
GateTokens ==
    {create_access_token(d, <<>>, t) : d \in TokenData,
                                      t \in {x \in GateTimePoints : x <= now}}
      \cup {EmptyToken}

NextGate ==
    \/ \E user_data \in GateUserData : RegisterCheck(1, user_data)
    \/ RegisterFlush(1)
    \/ \E user \in users : Deactivate(user)
    \/ \E username \in {JohnName, JohnEmail} : Authenticate(username, GoodPassword)
    \/ \E token \in GateTokens : GetCurrentUser(token)
    \/ GetCurrentActiveUser
    \/ GateTick

SpecGate == Init /\ [][NextGate]_vars

(***************************************************************************)
(* User.register on its own, one call after the other, over inputs of      *)
(* every shape: names, addresses, usernames and passwords that keep or     *)
(* break each rule of UserCreate.                                          *)
(***************************************************************************)
EmptyName == <<>>
LongName == [i \in 1 .. MaxNameLen + 1 |-> "a"]
BadEmail == <<"j", "x", ".", "i", "o">>
ShortUsername == <<"j", "o">>
LongUsername == [i \in 1 .. MaxUsernameLen + 1 |-> "a"]
NoLowerPassword == <<"A", "B", "C", "1", "2", "3">>
NoDigitPassword == <<"A", "b", "c", "a", "b", "c">>
LongPassword ==
    [i \in 1 .. MaxPasswordLen + 1 |->
        IF i = 1 THEN "A" ELSE IF i = 2 THEN "1" ELSE "a"]

ShapeData ==
    [first_name : {<<"J">>, EmptyName, LongName},
     last_name : {<<"D">>, EmptyName, LongName},
     email : {JohnEmail, KimEmail, BadEmail},
     username : {JohnName, ShortUsername, LongUsername},
     password : {GoodPassword, ShortPassword, NoUpperPassword,
                 NoLowerPassword, NoDigitPassword, LongPassword}]

NextShape ==
    \/ \E user_data \in ShapeData : RegisterCheck(1, user_data)
    \/ RegisterFlush(1)

SpecShape == Init /\ [][NextShape]_vars

(***************************************************************************)
(* Password hashing on its own: hash_password and verify_password called   *)
(* directly, and authenticate against a row that was stored without        *)
(* register (tests/conftest.py: the test_user fixture).                    *)
(***************************************************************************)
MaxHashes == 2

\* Two passwords of 73 characters that differ in the last one only.
LongPasswordA ==
    [i \in 1 .. BcryptMaxBytes + 1 |->
        IF i = 1 THEN "A" ELSE IF i = 2 THEN "1" ELSE "a"]
LongPasswordB ==
    [i \in 1 .. BcryptMaxBytes + 1 |->
        IF i = 1 THEN "A" ELSE IF i = 2 THEN "1"
        ELSE IF i = BcryptMaxBytes + 1 THEN "b" ELSE "a"]

HashPasswords == {GoodPassword, LongPasswordA, LongPasswordB}

HashPassword(password) ==
    /\ Len(hashes) < MaxHashes
    /\ \E salt \in FreshSalts :
         hashes' = Append(hashes, [password |-> password,
                                   hash |-> hash_password(password, salt)])
    /\ UNCHANGED <<users, reg, registered, issued, now, nextId, result>>

\* The strings handed to verify_password as the stored one: hashes
\* hash_password returned, and strings that are no hash.
HashStrings ==
    {hashes[i].hash : i \in 1 .. Len(hashes)}
      \cup {RawText(GoodPassword), RawText(<<>>)}

VerifyPassword(hashed, plain_password) ==
    /\ result' =
         [op |-> "verify_password", hashed |-> hashed,
          plain_password |-> plain_password] @@
         (IF VerifyRaises(hashed)
            THEN [outcome |-> "raise", exc |-> "UnknownHashError"]
            ELSE [outcome |-> "return",
                  value |-> verify_password(hashed, plain_password)])
    /\ UNCHANGED <<users, reg, registered, issued, now, nextId, hashes>>

\* The test_user fixture: User(**create_fake_user()) is added and committed
\* as it is, its password as typed; the other columns take their defaults.
SeedUser(user_data) ==
    LET user == [first_name |-> user_data.first_name,
                 last_name |-> user_data.last_name,
                 email |-> user_data.email,
                 username |-> user_data.username,
                 password |-> RawText(user_data.password),
                 is_active |-> TRUE,
                 is_verified |-> FALSE]
    IN  /\ nextId <= MaxUsers
        /\ ~ UniqueViolation(user)
        /\ users' = users \cup {InsertedRow(user, nextId, now)}
        /\ nextId' = nextId + 1
        /\ UNCHANGED <<reg, registered, issued, now, result, hashes>>

SeedData ==
    {d \in UserData : /\ d.email = KimEmail
                      /\ d.username = JohnName
                      /\ d.password = GoodPassword}

NextHash ==
    \/ \E password \in HashPasswords : HashPassword(password)
    \/ \E hashed \in HashStrings, plain_password \in HashPasswords :
         VerifyPassword(hashed, plain_password)
    \/ \E user_data \in SeedData : SeedUser(user_data)
    \/ \E password \in {GoodPassword, NoUpperPassword} :
         Authenticate(JohnName, password)

SpecHash == Init /\ [][NextHash]_vars

(***************************************************************************)
(* Every operation of the code over one store, registrations one after     *)
(* the other: register, authenticate, verify_token, get_current_user and   *)
(* get_current_active_user.                                                *)
(***************************************************************************)
NextFrame ==
    \/ \E user_data \in GateUserData : RegisterCheck(1, user_data)
    \/ RegisterFlush(1)
    \/ \E username \in LoginNames, password \in {GoodPassword, NoUpperPassword} :
         Authenticate(username, password)
    \/ \E token \in BearerTokens : VerifyToken(token)
    \/ \E token \in BearerTokens : GetCurrentUser(token)
    \/ GetCurrentActiveUser
    \/ Tick

SpecFrame == Init /\ [][NextFrame]_vars

(***************************************************************************)
(* Properties.                                                             *)
(***************************************************************************)
IsConflict(r) ==
    /\ r.op = "register"
    /\ r.outcome = "raise"
    /\ r.exc = "ValueError"
    /\ r.msg = {"Username or email already exists"}

\* C1: in every reachable state, whatever the interleaving of register and
\* authenticate calls, no two stored users share an email and no two share
\* a username.
C1_UniqueEmailAndUsername ==
    \A u, v \in users :
        u # v => u.email # v.email /\ u.username # v.username

\* C1 witness: the unique index has rejected an insert while a user is stored.
C1_ConstraintActed ==
    /\ users # {}
    /\ result.op = "register"
    /\ result.outcome = "raise"
    /\ result.exc = "IntegrityError"

\* C2: a register call that passed the existence check and whose insert the
\* unique index then rejects, because a row with its email or username was
\* stored in between, fails with the ValueError "Username or email already
\* exists" of the pre-check, and is not retried.
C2_RaceLoserGetsPrecheckConflict ==
    [][\A c \in Callers :
         (/\ reg[c].pc = "flush"
          /\ reg'[c].pc = "idle"
          /\ Existing(reg[c].data) # {})
            => IsConflict(result') /\ users' = users]_vars

\* A stored row that an earlier register call with this email or this
\* username (as given to it) put there.
RegisteredBefore(user_data) ==
    \E h \in registered :
        h.email = user_data.email \/ h.username = user_data.username

\* C3: after a register call has succeeded for an email and a username,
\* every later register call with that email or that username (here: with
\* an input of valid shape) fails with the ValueError "Username or email
\* already exists" and adds no user: it does not get past the existence
\* check.
C3_LaterRegisterGetsConflict ==
    [][/\ \A c \in Callers :
            (reg[c].pc = "idle" /\ reg'[c].pc = "flush")
               => ~ RegisteredBefore(reg'[c].data)
       /\ (/\ reg' = reg
           /\ result' # result
           /\ result'.op = "register"
           /\ RegisteredBefore(result'.data)
           /\ ModelValidateErrors(result'.data) = {})
             => IsConflict(result') /\ users' = users]_vars

\* C4: authenticate with an identifier no user has, and authenticate with a
\* registered identifier and a wrong password, both return None and nothing
\* else, issue no token and leave every stored row as it was.
C4_FailedLoginIsUniform ==
    [][(/\ result' # result
        /\ result'.op = "authenticate"
        /\ \A u \in LoginMatches(result'.username) :
              u.password.digest # Digest(u.password.salt, result'.password))
          => /\ result'.outcome = "return"
             /\ result'.returned = "None"
             /\ "value" \notin DOMAIN result'
             /\ users' = users
             /\ issued' = issued]_vars

\* C4 witness: a registered user's name with a wrong password got None.
C4_WrongPasswordRejected ==
    /\ result.op = "authenticate"
    /\ result.returned = "None"
    /\ \E u \in users :
          /\ u.username = result.username \/ u.email = result.username
          /\ u.password.digest # Digest(u.password.salt, result.password)

\* C5: authenticate with an identifier equal to a registered user's username
\* or email and that user's password sets that user's last_login to the
\* current time and returns token_type "bearer", a token whose subject is
\* that user's id and whose expiry is 30 minutes after issuance, and that
\* user's profile.
C5_LoginSucceedsForThatUser ==
    [][(result' # result /\ result'.op = "authenticate")
         => \A u \in LoginMatches(result'.username) :
              u.password.digest = Digest(u.password.salt, result'.password)
                => /\ result'.returned = "dict"
                   /\ result'.value.token_type = "bearer"
                   /\ result'.value.access_token.claims.sub = UuidStr(u.id)
                   /\ result'.value.access_token.claims.exp =
                        Timegm(now) + ACCESS_TOKEN_EXPIRE_MINUTES * 60
                   /\ \E v \in users' :
                        /\ v.id = u.id
                        /\ v.last_login = now
                        /\ result'.value.user = UserResponse(v)]_vars

\* A token signed with the server's key under the configured algorithm.
Authentic(token) ==
    /\ token.fmt = "jwt"
    /\ token.key = SECRET_KEY
    /\ token.alg = ALGORITHM

HasUuidSubject(token) ==
    /\ "sub" \in DOMAIN token.claims
    /\ \E i \in IdSpace : token.claims.sub = UuidStr(i)

\* C6: verify_token never raises, and returns a subject id exactly when the
\* token is authentic, carries a UUID subject and the current time is
\* strictly before its expiry; otherwise it returns None.
C6_ValidIffStrictlyBeforeExpiry ==
    result.op = "verify_token" =>
        /\ result.ret.outcome = "return"
        /\ result.ret.value # NoId <=>
              /\ Authentic(result.token)
              /\ HasUuidSubject(result.token)
              /\ result.at < result.token.claims.exp * TicksPerSec

\* C7: a token create_access_token made for a user id (with no ttl, or with
\* a ttl that is not zero) verifies to that id at every time from its
\* issuance until the ttl has elapsed, and to None at every later time.
C7_ValidForExactlyTheTtl ==
    result.op = "verify_token" =>
        \A i \in issued :
            (/\ i.token = result.token
             /\ HasUuidSubject(i.token)
             /\ i.expires_delta # <<0>>
             /\ result.at >= i.at)
               => LET ttl == IF i.expires_delta = <<>> THEN DefaultTtlTicks
                                                     ELSE i.expires_delta[1]
                  IN  /\ result.at <= i.at + ttl
                         => result.ret.value = UuidParse(i.data.sub)
                      /\ result.at > i.at + ttl
                         => result.ret.value = NoId

\* C8: for every token verify_token rejects, an expired one included,
\* get_current_user raises 401 "Could not validate credentials" with the
\* header WWW-Authenticate: Bearer, and does not query the store.
C8_RejectedTokenIs401WithoutQuery ==
    (/\ result.op = "get_current_user"
     /\ verify_token(result.token, result.at).value = NoId)
       => /\ result.outcome = "raise"
          /\ result.exc.type = "HTTPException"
          /\ result.exc.status_code = 401
          /\ result.exc.detail = "Could not validate credentials"
          /\ result.exc.headers = ("WWW-Authenticate" :> "Bearer")
          /\ result.verify_calls = 1
          /\ result.queries = 0

\* C8 witness: an authentic token past its expiry was turned away.
C8_ExpiredTokenRejected ==
    /\ result.op = "get_current_user"
    /\ Authentic(result.token)
    /\ result.token.claims.exp < Timegm(result.at)
    /\ result.outcome = "raise"

\* The subject of a token the gate accepts at time t, NoId for any other.
AcceptedSubject(token, t) ==
    IF Authentic(token) /\ HasUuidSubject(token) /\ token.claims.exp >= Timegm(t)
      THEN UuidParse(token.claims.sub)
      ELSE NoId

\* C9: with a valid token whose subject no stored row has, get_current_user
\* raises the exception of the invalid-token case: same status, detail and
\* headers.
C9_MissingUserLooksLikeBadToken ==
    [][(/\ result' # result
        /\ result'.op = "get_current_user"
        /\ AcceptedSubject(result'.token, now) # NoId
        /\ ~ \E u \in users : u.id = AcceptedSubject(result'.token, now))
          => /\ result'.outcome = "raise"
             /\ result'.exc =
                  [type |-> "HTTPException", status_code |-> 401,
                   detail |-> "Could not validate credentials",
                   headers |-> ("WWW-Authenticate" :> "Bearer")]
             /\ users' = users]_vars

\* C9 witness: a valid token was turned away after the lookup found no row.
C9_ValidTokenNoUser ==
    /\ result.op = "get_current_user"
    /\ result.outcome = "raise"
    /\ result.queries = 1
    /\ Authentic(result.token)

\* C10: with a valid token whose subject is the id of a stored row,
\* get_current_user returns the profile of exactly that row, field by
\* field, after one verify_token call and one query.
C10_ReturnsThatUsersProfile ==
    [][(result' # result /\ result'.op = "get_current_user")
         => \A u \in users :
              u.id = AcceptedSubject(result'.token, now)
                => /\ result'.outcome = "return"
                   /\ result'.value.id = u.id
                   /\ result'.value.username = u.username
                   /\ result'.value.email = u.email
                   /\ result'.value.first_name = u.first_name
                   /\ result'.value.last_name = u.last_name
                   /\ result'.value.is_active = u.is_active
                   /\ result'.value.is_verified = u.is_verified
                   /\ result'.value.created_at = u.created_at
                   /\ result'.value.updated_at = u.updated_at
                   /\ result'.verify_calls = 1
                   /\ result'.queries = 1]_vars

\* C10 witness: the gate returned a profile while two users are stored.
C10_ProfileReturned ==
    /\ result.op = "get_current_user"
    /\ result.outcome = "return"
    /\ Cardinality(users) = 2

\* C11: get_current_active_user runs only on the profile a successful
\* get_current_user returned; it raises 400 "Inactive user" when that
\* profile's is_active is false, and returns that very profile otherwise.
C11_ActiveGate ==
    [][(result' # result /\ result'.op = "get_current_active_user")
         => /\ result.op = "get_current_user"
            /\ result.outcome = "return"
            /\ verify_token(result.token, result.at).value = result.value.id
            /\ result'.current_user = result.value
            /\ IF result.value.is_active
                 THEN /\ result'.outcome = "return"
                      /\ result'.value = result.value
                 ELSE /\ result'.outcome = "raise"
                      /\ result'.exc.status_code = 400
                      /\ result'.exc.detail = "Inactive user"
            /\ users' = users]_vars

\* C11 witness: an identified, inactive profile was turned away.
C11_InactiveTurnedAway ==
    /\ result.op = "get_current_active_user"
    /\ result.outcome = "raise"
    /\ ~ result.current_user.is_active

\* The instant a default-TTL token was issued at, to the second.
IssuedAtSec(token) == token.claims.exp - ACCESS_TOKEN_EXPIRE_MINUTES * 60

\* C12: a pass through the two gates never lets an inactive user through:
\* the profile get_current_user returns carries the is_active the store has
\* at that moment, and get_current_active_user returns only an active
\* profile and rejects an inactive one with "Inactive user", however long
\* before the deactivation the token was issued.
C12_InactiveNeverPasses ==
    [][/\ (result' # result /\ result'.op = "get_current_user"
             /\ result'.outcome = "return")
            => \E u \in users : /\ u.id = result'.value.id
                                /\ u.id = verify_token(result'.token, now).value
                                /\ result'.value.is_active = u.is_active
       /\ (result' # result /\ result'.op = "get_current_active_user")
            => IF result.value.is_active
                 THEN result'.outcome = "return"
                 ELSE /\ result'.outcome = "raise"
                      /\ result'.exc.detail = "Inactive user"]_vars

\* C12 witness: a token issued to a user before the deactivation, and not
\* expired, was rejected with "Inactive user" (the user has not logged in
\* since, so updated_at is the time of the deactivation).
C12_OldTokenRejected ==
    /\ result.op = "get_current_active_user"
    /\ result.outcome = "raise"
    /\ result.exc.detail = "Inactive user"
    /\ \E u \in users :
          /\ u.id = result.current_user.id
          /\ ~ u.is_active
          /\ u.last_login = NULL
          /\ u.created_at <= IssuedAtSec(result.token) * TicksPerSec
          /\ IssuedAtSec(result.token) * TicksPerSec < u.updated_at
          /\ result.identified_at < result.token.claims.exp * TicksPerSec

\* C13: a register call whose input is valid and whose email and username
\* no stored user had when it checked adds exactly one user, with an id no
\* stored user has, the names, email and username it was given, is_active
\* true, is_verified false and no last_login, and returns that user.
C13_RegisterAddsTheGivenUser ==
    [][\A c \in Callers :
         (reg[c].pc = "flush" /\ reg'[c].pc = "idle")
            => \E row \in users' :
                 /\ users' = users \cup {row}
                 /\ row \notin users
                 /\ row.id \notin {u.id : u \in users}
                 /\ row.first_name = reg[c].data.first_name
                 /\ row.last_name = reg[c].data.last_name
                 /\ row.email = reg[c].data.email
                 /\ row.username = reg[c].data.username
                 /\ row.is_active
                 /\ ~ row.is_verified
                 /\ row.last_login = NULL
                 /\ result'.outcome = "return"
                 /\ result'.value = row]_vars

\* Every stored password is the bcrypt hash of the password its row was
\* registered with, and is not that password.
StoredAsHash ==
    \A u \in users :
        \E h \in registered :
            /\ h.id = u.id
            /\ u.password = hash_password(h.password, u.password.salt)
            /\ u.password.scheme = "bcrypt"
            /\ u.password.digest # h.password
            /\ verify_password(u.password, h.password)

\* C14: through register and authenticate, every stored password is a hash
\* of the password given at registration, never that password itself, and
\* no step changes the password of a stored row.
C14_PasswordHashedAndSetOnce ==
    [][/\ StoredAsHash'
       /\ \A u \in users :
             \E v \in users' : v.id = u.id /\ v.password = u.password]_vars

\* C14 witness: a registered user has logged in.
C14_UserHasLoggedIn ==
    \E u \in users : u.last_login # NULL /\ u.password.scheme = "bcrypt"

\* The fields of a profile.
ProfileFields ==
    {"id", "username", "email", "first_name", "last_name", "is_active",
     "is_verified", "created_at", "updated_at"}

\* C15: whatever register, authenticate or get_current_user returns holds a
\* profile of id, username, email, names, is_active, is_verified,
\* created_at and updated_at only: no password and no hash of it.
C15_NoPasswordInReturnedValues ==
    (/\ result.op \in {"register", "authenticate", "get_current_user"}
     /\ "value" \in DOMAIN result)
       => LET profile == IF result.op = "authenticate" THEN result.value.user
                                                       ELSE result.value
          IN  /\ DOMAIN profile = ProfileFields
              /\ result.op = "authenticate"
                   => DOMAIN result.value = {"access_token", "token_type", "user"}

\* The shape rules an input breaks, as the specification lists them.
ShapeViolations(d) ==
    LET chars == {d.password[i] : i \in 1 .. Len(d.password)}
    IN  {r \in {"first_name_empty", "first_name_long", "last_name_empty",
                "last_name_long", "email", "username", "password_length",
                "password_upper", "password_lower", "password_digit"} :
           \/ r = "first_name_empty" /\ Len(d.first_name) = 0
           \/ r = "first_name_long" /\ Len(d.first_name) > 50
           \/ r = "last_name_empty" /\ Len(d.last_name) = 0
           \/ r = "last_name_long" /\ Len(d.last_name) > 50
           \/ r = "email" /\ ~ IsEmail(d.email)
           \/ r = "username" /\ (Len(d.username) < 3 \/ Len(d.username) > 50)
           \/ r = "password_length"
                /\ (Len(d.password) < 6 \/ Len(d.password) > 128)
           \/ r = "password_upper" /\ ~ \E c \in chars : IsUpper(c)
           \/ r = "password_lower" /\ ~ \E c \in chars : IsLower(c)
           \/ r = "password_digit" /\ ~ \E c \in chars : IsDigit(c)}

\* C16: register fails with a validation error (a ValueError) and adds no
\* user for every input that breaks a shape rule: a name empty or over 50
\* characters, a malformed email, a username outside 3..50, a password
\* outside 6..128 or without an uppercase letter, a lowercase letter or a
\* digit.
C16_EveryShapeRuleEnforced ==
    [][/\ (reg[1].pc = "idle" /\ reg'[1].pc = "flush")
            => ShapeViolations(reg'[1].data) = {}
       /\ (/\ result' # result
           /\ result'.op = "register"
           /\ ShapeViolations(result'.data) # {})
             => /\ result'.outcome = "raise"
                /\ result'.exc = "ValueError"
                /\ users' = users]_vars

\* Whether the error text names the rule.
RuleReported(rule, msg) ==
    CASE rule = "first_name_long" -> "first_name" \in msg
      [] rule = "last_name_long" -> "last_name" \in msg
      [] rule = "email" -> "email" \in msg
      [] rule = "username" -> "username" \in msg
      [] rule = "password_length" ->
           \/ "password" \in msg
           \/ "Password must be at least 6 characters long" \in msg
      [] rule = "password_upper" ->
           "Password must contain at least one uppercase letter" \in msg
      [] rule = "password_lower" ->
           "Password must contain at least one lowercase letter" \in msg
      [] rule = "password_digit" ->
           "Password must contain at least one digit" \in msg
      [] OTHER -> TRUE

\* C17: when register rejects an input for its shape, the error names every
\* rule the input breaks (the rules the code has: all but "name not
\* empty"), not only the first one found.
C17_ErrorListsEveryViolation ==
    [][(/\ result' # result
        /\ result'.op = "register"
        /\ result'.outcome = "raise"
        /\ result'.exc = "ValueError"
        /\ "Username or email already exists" \notin result'.msg)
          => \A rule \in ShapeViolations(result'.data) :
                RuleReported(rule, result'.msg)]_vars

\* C18: verify_password never raises, and returns false for a stored
\* string that is no well-formed hash; authenticate against a user with
\* such a string returns as for any invalid credentials.
C18_VerifyNeverRaises ==
    /\ result.op = "verify_password"
         => /\ result.outcome = "return"
            /\ VerifyRaises(result.hashed) => result.value = FALSE
    /\ result.op = "authenticate"
         => result.outcome = "return" /\ result.returned = "None"

\* C19: two hash_password calls on one password return different strings;
\* a password verifies against each hash made of it, and a different
\* password against none.
C19_FreshSaltAndRoundTrip ==
    /\ \A i, j \in 1 .. Len(hashes) :
          (i # j /\ hashes[i].password = hashes[j].password)
             => hashes[i].hash # hashes[j].hash
    /\ result.op = "verify_password"
         => \A i \in 1 .. Len(hashes) :
               hashes[i].hash = result.hashed
                 => /\ result.outcome = "return"
                    /\ result.value = (result.plain_password = hashes[i].password)

\* C20: the expiry of every token create_access_token issues is the issue
\* time plus the ttl it was passed, a zero ttl included; the 30 minutes
\* are used only when it was passed none.
C20_ExpiryIsIssueTimePlusTtl ==
    \A i \in issued :
        i.token.claims.exp =
            Timegm(i.at + (IF i.expires_delta = <<>> THEN DefaultTtlTicks
                                                     ELSE i.expires_delta[1]))

\* The shape rules the code has: those of the specification but "name not
\* empty".
EnforcedViolations(d) ==
    ShapeViolations(d) \ {"first_name_empty", "last_name_empty"}

\* C21: register validates the whole shape of its input before it looks
\* for an existing user: an input that breaks a shape rule fails with the
\* validation error, not with the conflict error, even when its email or
\* username is a stored user's.
C21_ShapeCheckedBeforeExistence ==
    [][(/\ result' # result
        /\ result'.op = "register"
        /\ EnforcedViolations(result'.data) # {})
          => /\ result'.outcome = "raise"
             /\ result'.exc = "ValueError"
             /\ "Username or email already exists" \notin result'.msg]_vars

\* C22: no stored user's username is another stored user's email, so a
\* login identifier matches one user at most; authenticate with a stored
\* user's email or username and that user's password returns a token whose
\* subject is that user's id, never None and never another user's token.
C22_IdentifierMatchesOneUser ==
    [][/\ \A u, v \in users' : u # v => u.username # v.email
       /\ (result' # result /\ result'.op = "authenticate")
            => \A u \in users :
                 (/\ u.username = result'.username \/ u.email = result'.username
                  /\ verify_password(u.password, result'.password))
                    => /\ result'.returned = "dict"
                       /\ result'.value.access_token.claims.sub = UuidStr(u.id)]_vars

\* C23: a successful authenticate changes the last_login and updated_at of
\* the authenticated user and nothing else; a failed authenticate, a failed
\* register, verify_token, get_current_user and get_current_active_user
\* change no stored user; no step changes a stored user's id, email,
\* username, is_active or is_verified.
C23_Frame ==
    [][/\ \A u \in users :
             \E v \in users' : /\ v.id = u.id
                               /\ v.email = u.email
                               /\ v.username = u.username
                               /\ v.is_active = u.is_active
                               /\ v.is_verified = u.is_verified
       /\ (result' # result /\ result'.op = "authenticate"
             /\ "value" \in DOMAIN result')
            => /\ Cardinality(users') = Cardinality(users)
               /\ \A u \in users :
                     IF u.id = result'.value.user.id
                       THEN \E v \in users' :
                              v = [u EXCEPT !.last_login = v.last_login,
                                            !.updated_at = v.updated_at]
                       ELSE u \in users'
       /\ (/\ result' # result
           /\ \/ result'.op \in {"verify_token", "get_current_user",
                                 "get_current_active_user"}
              \/ result'.op = "authenticate" /\ "value" \notin DOMAIN result'
              \/ result'.op = "register" /\ result'.outcome = "raise")
            => users' = users]_vars

\* C23 witness: one of two stored users has logged in, the other's row is
\* as it was inserted.
C23_OneOfTwoLoggedIn ==
    /\ result.op = "authenticate"
    /\ "value" \in DOMAIN result
    /\ \E u, v \in users :
          /\ u.id = result.value.user.id
          /\ u.last_login # NULL
          /\ v.id # u.id
          /\ v.last_login = NULL

\* C24: authenticate does not look at is_active or is_verified: with the
\* right password a user, deactivated or not, gets last_login set and a
\* token that get_current_user accepts, returning that user's profile;
\* get_current_active_user alone turns an inactive user away.
C24_LoginIgnoresIsActive ==
    [][/\ (result' # result /\ result'.op = "authenticate")
            => \A u \in LoginMatches(result'.username) :
                 (/\ Cardinality(LoginMatches(result'.username)) = 1
                  /\ verify_password(u.password, result'.password))
                    => /\ result'.returned = "dict"
                       /\ verify_token(result'.value.access_token, now).value = u.id
                       /\ result'.value.user.is_active = u.is_active
                       /\ result'.value.user.is_verified = u.is_verified
                       /\ \E v \in users' : v.id = u.id /\ v.last_login = now
       /\ (result' # result /\ result'.op = "get_current_user")
            => \A u \in users :
                 u.id = verify_token(result'.token, now).value
                   => /\ result'.outcome = "return"
                      /\ result'.value.is_active = u.is_active
       /\ (result' # result /\ result'.op = "get_current_active_user")
            => (result'.outcome = "raise" <=> ~ result.value.is_active)]_vars

\* C24 witness: a deactivated user has logged in and got a token.
C24_InactiveUserLoggedIn ==
    /\ result.op = "authenticate"
    /\ "value" \in DOMAIN result
    /\ ~ result.value.user.is_active
    /\ \E u \in users : /\ u.id = result.value.user.id
                        /\ u.last_login = result.value.user.updated_at

====
